---- MODULE Spec2Model ----
(***************************************************************************)
(* Model of the two static-file server scripts docs/serve.py and           *)
(* descartes/docs/blog/serve.py.  Each script parses an optional port      *)
(* argument, changes into its own directory, constructs a                  *)
(* socketserver.TCPServer with SimpleHTTPRequestHandler inside a `with`    *)
(* block, prints a banner and calls serve_forever() inside a               *)
(* try/except KeyboardInterrupt.                                           *)
(***************************************************************************)
EXTENDS Integers, Sequences, FiniteSets, TLC

\* ------------------------------------------------------------------ bounds
MaxRequests == 2      \* client connections made during one run
MaxInterrupts == 2    \* interrupt signals delivered during one run

\* ------------------------------------------------------- program constants
DefaultPort == 8000   \* the `else 8000` of the PORT assignment
MaxPort == 65535      \* largest port number the socket layer accepts
ExitOk == 0           \* status when the script runs off its end
ExitError == 1        \* status of an unhandled exception
MaxStrDigits == 4300  \* sys.int_max_str_digits: longest digit string int() converts
ExitSigint == 130     \* unhandled KeyboardInterrupt: death by SIGINT, reported as 128 + 2

Variants == {"docs", "blog"}

\* Directory that contains the script of each variant: dirname(abspath(__file__)).
ScriptDir(v) == IF v = "docs" THEN "docs" ELSE "blog"

\* A directory the caller may launch the script from.
CallerDir == "home"

\* A character is its Unicode code point.  The first digit (value 0) of every
\* block of decimal digits (category Nd); each block is ten consecutive code
\* points.  48 is "0", 1632 ARABIC-INDIC DIGIT ZERO, 65296 FULLWIDTH DIGIT ZERO.
DigitZeros ==
  { 48, 1632, 1776, 1984, 2406, 2534, 2662, 2790, 2918, 3046,
    3174, 3302, 3430, 3558, 3664, 3792, 3872, 4160, 4240, 6112,
    6160, 6470, 6608, 6784, 6800, 6992, 7088, 7232, 7248, 42528,
    43216, 43264, 43472, 43504, 43600, 44016, 65296, 66720, 68912, 69734,
    69872, 69942, 70096, 70384, 70736, 70864, 71248, 71360, 71472, 71904,
    72016, 72784, 73040, 73120, 92768, 92864, 93008, 120782, 120792, 120802,
    120812, 120822, 123200, 123632, 125264, 130032 }

\* The characters int() strips from both ends of its argument: tab, newline,
\* vertical tab, form feed, carriage return, space, NEL, NBSP and the Unicode
\* space separators.
Whitespace ==
  { 9, 10, 11, 12, 13, 32, 133, 160, 5760, 8192,
    8193, 8194, 8195, 8196, 8197, 8198, 8199, 8200, 8201, 8202,
    8232, 8233, 8239, 8287, 12288 }

Plus == 43
Minus == 45
Underscore == 95

IsDigit(c) == \E z \in DigitZeros : c \in z..(z + 9)

DigitVal(c) == c - (CHOOSE z \in DigitZeros : c \in z..(z + 9))

\* Command lines the model launches with.  argv[1] is the script name
\* (Python's sys.argv[0]); argv[2] is Python's sys.argv[1].  An argument is a
\* sequence of characters.
Argvs ==
  { <<"serve.py">>,
    <<"serve.py", <<51, 48, 48, 48>> >>,                     \* 3000
    <<"serve.py", <<56, 48, 48, 49>> >>,                     \* 8001
    <<"serve.py", <<32, 43, 56, 95, 48, 48, 49>> >>,         \* " +8_001"
    <<"serve.py", <<9, 1635, 1632, 48, 48, 10>> >>,          \* tab, 3000 with two Arabic-Indic digits, newline
    <<"serve.py", <<97, 98, 99>> >>,                         \* abc
    <<"serve.py", <<56, 48, 95>> >>,                         \* 80_
    <<"serve.py", <<45, 49>> >>,                             \* -1
    <<"serve.py", <<55, 48, 48, 48, 48>> >>,                 \* 70000
    <<"serve.py", <<51, 48, 48, 48>>, <<97, 98, 99>> >> }    \* 3000 abc

\* Sets of ports other processes already hold when the script starts.
InUseSets == { {}, {8000}, {3000, 8001} }

\* Ports the kernel hands out when asked to bind port 0 (the default
\* net.ipv4.ip_local_port_range).
EphemeralPorts == 32768..60999

\* ------------------------------------------------------------ int(string)
RECURSIVE LStrip(_)
LStrip(s) == IF s # <<>> /\ Head(s) \in Whitespace THEN LStrip(Tail(s)) ELSE s

RECURSIVE RStrip(_)
RStrip(s) ==
  IF s # <<>> /\ s[Len(s)] \in Whitespace
  THEN RStrip(SubSeq(s, 1, Len(s) - 1)) ELSE s

\* Digits with single underscores allowed between them; acc is the value so
\* far and prevDigit says whether the previous character was a digit.
RECURSIVE ParseDigits(_, _, _)
ParseDigits(s, acc, prevDigit) ==
  IF s = <<>> THEN [ok |-> prevDigit, val |-> acc]
  ELSE IF IsDigit(Head(s))
       THEN ParseDigits(Tail(s), acc * 10 + DigitVal(Head(s)), TRUE)
  ELSE IF Head(s) = Underscore /\ prevDigit
       THEN ParseDigits(Tail(s), acc, FALSE)
  ELSE [ok |-> FALSE, val |-> 0]

\* How many digits a string holds.
NumDigits(s) == Cardinality({i \in 1..Len(s) : IsDigit(s[i])})

\* Python's int(s) for a decimal string: surrounding whitespace is dropped,
\* one sign is allowed, the digits may be any Unicode decimal digits, a
\* string of more than sys.int_max_str_digits digits is refused, and
\* anything else raises ValueError too (ok = FALSE).
ParseInt(s) ==
  LET t == RStrip(LStrip(s))
      neg == t # <<>> /\ Head(t) = Minus
      signed == t # <<>> /\ Head(t) \in {Minus, Plus}
      body == IF signed THEN Tail(t) ELSE t
      r == IF NumDigits(body) > MaxStrDigits
           THEN [ok |-> FALSE, val |-> 0]
           ELSE ParseDigits(body, 0, FALSE)
  IN IF r.ok THEN [ok |-> TRUE, val |-> IF neg THEN 0 - r.val ELSE r.val]
     ELSE [ok |-> FALSE, val |-> 0]

\* Mutant: a bad argument silently falls back to the default port.
ResolvePortLenient(args) ==
  IF Len(args) > 1
  THEN IF ParseInt(args[2]).ok THEN ParseInt(args[2])
       ELSE [ok |-> TRUE, val |-> DefaultPort]
  ELSE [ok |-> TRUE, val |-> DefaultPort]

\* Mutant: the default port is ignored in favour of another one.
ResolvePortOtherDefault(args) ==
  IF Len(args) > 1 THEN ParseInt(args[2])
  ELSE [ok |-> TRUE, val |-> DefaultPort + 80]

\* PORT = int(sys.argv[1]) if len(sys.argv) > 1 else 8000
ResolvePort(args) ==
  IF Len(args) > 1 THEN ParseInt(args[2])
  ELSE [ok |-> TRUE, val |-> DefaultPort]

\* ------------------------------------------------------------- file system
\* Files on disk, per directory tree.  kind is "file" (readable), "noperm"
\* (a file that exists but open() fails with PermissionError), "dir" or
\* "dir000" (a directory os.listdir cannot read).  Each script lies in the
\* directory it serves.
FSTable ==
  { [root |-> "docs", path |-> <<"serve.py">>, kind |-> "file", content |-> "serve-py-docs"],
    [root |-> "blog", path |-> <<"serve.py">>, kind |-> "file", content |-> "serve-py-blog"],
    [root |-> "docs", path |-> <<"d_htm">>, kind |-> "dir", content |-> ""],
    [root |-> "docs", path |-> <<"d_htm", "index.htm">>, kind |-> "file", content |-> "htm-index"],
    [root |-> "docs", path |-> <<"d_unlistable">>, kind |-> "dir000", content |-> ""], [root |-> "docs", path |-> <<"index.html">>, kind |-> "file", content |-> "docs-index"],
    [root |-> "docs", path |-> <<"blog">>, kind |-> "dir", content |-> ""],
    [root |-> "docs", path |-> <<"blog", "index.html">>, kind |-> "file", content |-> "blog-index"],
    [root |-> "docs", path |-> <<"secret.txt">>, kind |-> "noperm", content |-> "secret"],
    [root |-> "docs", path |-> <<"assets">>, kind |-> "dir", content |-> ""],
    [root |-> "docs", path |-> <<"assets", "app.js">>, kind |-> "file", content |-> "app-js"],
    [root |-> "blog", path |-> <<"index.html">>, kind |-> "file", content |-> "blog-index"],
    [root |-> "home", path |-> <<"index.html">>, kind |-> "file", content |-> "home-index"],
    [root |-> "home", path |-> <<"missing.xyz">>, kind |-> "file", content |-> "home-file"] }

\* What the file system holds at root/path.
Node(root, path) ==
  IF path = <<>> THEN [kind |-> "dir", content |-> ""]
  ELSE IF \E e \in FSTable : e.root = root /\ e.path = path
       THEN LET e == CHOOSE e \in FSTable : e.root = root /\ e.path = path
            IN [kind |-> e.kind, content |-> e.content]
       ELSE [kind |-> "absent", content |-> ""]

\* Request targets clients send: the URL path split at "/", and whether it
\* ends in "/".
RequestPaths ==
  { [segs |-> <<>>, slash |-> TRUE],                        \* /
    [segs |-> <<"index.html">>, slash |-> FALSE],           \* /index.html
    [segs |-> <<"missing.xyz">>, slash |-> FALSE],          \* /missing.xyz
    [segs |-> <<"blog">>, slash |-> FALSE],                 \* /blog
    [segs |-> <<"blog">>, slash |-> TRUE],                  \* /blog/
    [segs |-> <<"secret.txt">>, slash |-> FALSE],           \* /secret.txt
    [segs |-> <<"assets">>, slash |-> TRUE],                \* /assets/
    [segs |-> <<"blog", "..", "index.html">>, slash |-> FALSE],  \* /blog/../index.html
    [segs |-> <<"index.html">>, slash |-> TRUE],            \* /index.html/
    [segs |-> <<"d_htm">>, slash |-> TRUE],                 \* /d_htm/
    [segs |-> <<"d_unlistable">>, slash |-> TRUE] }         \* /d_unlistable/

\* posixpath.normpath on the segments: "." is dropped, ".." removes the
\* segment before it (and is dropped at the root).
RECURSIVE NormPath(_, _)
NormPath(segs, acc) ==
  IF segs = <<>> THEN acc
  ELSE IF Head(segs) = "." THEN NormPath(Tail(segs), acc)
  ELSE IF Head(segs) = ".."
       THEN NormPath(Tail(segs),
                     IF acc = <<>> THEN acc ELSE SubSeq(acc, 1, Len(acc) - 1))
  ELSE NormPath(Tail(segs), Append(acc, Head(segs)))

\* SimpleHTTPRequestHandler.translate_path: the path below the handler's
\* directory (the working directory at request time).
translate_path(req) == NormPath(req.segs, <<>>)

\* os.path.isdir
IsDir(n) == n.kind \in {"dir", "dir000"}

\* os.path.isfile: true of an unreadable file too.
IsFile(n) == n.kind \in {"file", "noperm"}

\* The tail of send_head: open(path, 'rb') and the 200 response, or 404 when
\* open raises OSError.
OpenAndSend(n) ==
  IF n.kind = "file"
  THEN [status |-> 200, kind |-> "file", content |-> n.content]
  ELSE [status |-> 404, kind |-> "error", content |-> ""]

\* SimpleHTTPRequestHandler.list_directory: 404 when os.listdir raises.
list_directory(n) ==
  IF n.kind = "dir000"
  THEN [status |-> 404, kind |-> "error", content |-> ""]
  ELSE [status |-> 200, kind |-> "listing", content |-> ""]

\* Mutant: a missing file is answered with an empty success response.
send_head_lenient(root, req) ==
  LET path == translate_path(req)
      n == Node(root, path)
  IN IF n.kind = "file" /\ ~req.slash
     THEN [status |-> 200, kind |-> "file", content |-> n.content]
     ELSE [status |-> 200, kind |-> "empty", content |-> ""]

\* SimpleHTTPRequestHandler.send_head / do_GET for a request without
\* conditional headers, with root the handler's directory.
send_head(root, req) ==
  LET path == translate_path(req)
      n == Node(root, path)
      html == Node(root, Append(path, "index.html"))
      htm == Node(root, Append(path, "index.htm"))
  IN IF IsDir(n)
     THEN IF ~req.slash
          THEN [status |-> 301, kind |-> "empty", content |-> ""]
          ELSE IF n.kind = "dir" /\ IsFile(html) THEN OpenAndSend(html)
          ELSE IF n.kind = "dir" /\ IsFile(htm) THEN OpenAndSend(htm)
          ELSE list_directory(n)
     ELSE IF req.slash
          THEN [status |-> 404, kind |-> "error", content |-> ""]
     ELSE OpenAndSend(n)

\* Requests clients send: GET for every target of RequestPaths, a HEAD for
\* an existing file, a POST for a missing path, and a request line
\* the server cannot parse ("BAD"; its path is not looked at).
Requests ==
  [method : {"GET"}, path : RequestPaths]
    \cup { [method |-> "HEAD", path |-> [segs |-> <<"index.html">>, slash |-> FALSE]],
           [method |-> "POST", path |-> [segs |-> <<"missing.xyz">>, slash |-> FALSE]],
           [method |-> "BAD", path |-> [segs |-> <<>>, slash |-> TRUE]] }

\* BaseHTTPRequestHandler.handle_one_request: a request line that does not
\* parse gets 400, a method without a do_ method 501, HEAD the headers of
\* send_head without a body, GET the result of send_head.
handle_one_request(root, req) ==
  IF req.method = "BAD"
  THEN [status |-> 400, kind |-> "error", content |-> ""]
  ELSE IF req.method = "GET" THEN send_head(root, req.path)
  ELSE IF req.method = "HEAD"
       THEN [status |-> send_head(root, req.path).status,
             kind |-> "empty", content |-> ""]
  ELSE [status |-> 501, kind |-> "error", content |-> ""]

\* ------------------------------------------------------------ socket layer
\* Mutant: a port that is taken makes the server try the next one.
BindPortFallback(p, used) ==
  IF p < 0 \/ p > MaxPort THEN [ok |-> FALSE, ports |-> {}, err |-> "OverflowError"]
  ELSE IF p = 0 THEN [ok |-> TRUE, ports |-> EphemeralPorts \ used, err |-> "none"]
  ELSE IF p \in used THEN [ok |-> TRUE, ports |-> {p + 1} \ used, err |-> "none"]
  ELSE [ok |-> TRUE, ports |-> {p}, err |-> "none"]

\* socket.bind(("", p)) with allow_reuse_address left False: the ports the
\* socket may end up bound to, or the exception raised.
BindPort(p, used) ==
  IF p < 0 \/ p > MaxPort THEN [ok |-> FALSE, ports |-> {}, err |-> "OverflowError"]
  ELSE IF p = 0 THEN [ok |-> TRUE, ports |-> EphemeralPorts \ used, err |-> "none"]
  ELSE IF p \in used THEN [ok |-> FALSE, ports |-> {}, err |-> "OSError"]
  ELSE [ok |-> TRUE, ports |-> {p}, err |-> "none"]

\* Mutant: the server object is dropped without closing its socket.
server_close_leak(s) == s

\* TCPServer.server_close(): the socket is closed whatever state it was in.
server_close(s) == "closed"

\* Mutant: requests are dispatched to threads, so accept never waits.
CanAcceptThreaded(h) == TRUE

\* TCPServer.process_request runs finish_request inline, so get_request is
\* reached again only when no request is being handled.
CanAccept(h) == h = {}

\* Mutant: an error response propagates out of the serving loop.
AfterRequestRaise(resp) == IF resp.status >= 400 THEN "with_exit" ELSE "serving"

\* Where control is after a request was handled: handler exceptions are
\* absorbed by _handle_request_noblock and error statuses are plain
\* responses, so the loop of serve_forever goes on.
AfterRequest(resp) == "serving"

\* Mutant: the try block covers the whole `with` body.
InterruptTargetWideTry(p) ==
  IF p \in {"banner", "try", "serving", "unwind"} THEN "unwind"
  ELSE IF p = "except" THEN "with_exit"
  ELSE IF p \in {"bind", "activate"} THEN "ctor_except"
  ELSE "exited"

\* Mutant: there is no except clause around serve_forever.
InterruptTargetNoTry(p) ==
  IF p \in {"banner", "try", "serving", "unwind", "except"} THEN "with_exit"
  ELSE IF p \in {"bind", "activate"} THEN "ctor_except"
  ELSE "exited"

\* Where a KeyboardInterrupt raised at position p takes control.  Only
\* serve_forever() is inside `try`: an interrupt in its loop, or while it is
\* still unwinding from an earlier one, ends in the except clause.  The
\* banner, the line before `try` and the except body are inside `with` but
\* outside `try`: __exit__ runs and the exception goes on.  Inside the
\* constructor's try (server_bind, server_activate) the bare except takes
\* over.  Everything else (before the socket exists, inside the
\* constructor's except, before `with` is entered, inside __exit__) is
\* unprotected.
InterruptTarget(p) ==
  IF p \in {"serving", "unwind"} THEN "unwind"
  ELSE IF p \in {"banner", "try", "except"} THEN "with_exit"
  ELSE IF p \in {"bind", "activate"} THEN "ctor_except"
  ELSE "exited"

\* Mutant: the script stays in the caller's directory.
ChdirTargetStay(v, d) == d

\* os.chdir(os.path.dirname(os.path.abspath(__file__)))
ChdirTarget(v, d) == ScriptDir(v)

\* The print calls between `with` and `try`; the documentation server has
\* one more line than the blog server.
Banner(v) ==
  IF v = "docs"
  THEN <<"title-docs", "rule", "serving-at", "blog-at", "press-ctrl-c">>
  ELSE <<"title-blog", "rule", "serving-at", "press-ctrl-c">>

\* Exit status of the interpreter for an exception nobody caught.
ExitStatus(e) ==
  IF e = "none" THEN ExitOk
  ELSE IF e = "KeyboardInterrupt" THEN ExitSigint
  ELSE ExitError

\* ------------------------------------------------------------------ state
\* Value of PORT and of the socket's port while they are not assigned.
NoPort == 0 - 2

\* Value of exitCode while the process is running.
NoExit == 0 - 1

VARIABLES
  variant,      \* which of the two scripts runs
  argv,         \* the command line
  inUse,        \* ports held by other processes
  launchDir,    \* the directory the caller launched the script from
  cwd,          \* the process working directory
  PORT,         \* the module-level PORT
  sock,         \* httpd.socket: "none", "created", "bound", "listening" or "closed"
  held,         \* the process holds an open socket descriptor
  boundPort,    \* the port httpd.socket is bound to
  pc,           \* position of the script
  exc,          \* the exception that is propagating or ended the process
  exitCode,     \* exit status once pc = "exited"
  out,          \* lines printed on standard output
  backlog,      \* connections queued on the listening socket
  handling,     \* requests whose handler is running
  responses,    \* responses sent, in order
  nextId,       \* number of the next client connection
  sigLog,       \* positions at which interrupt signals arrived
  bindAttempts, \* how many times bind was called
  chdirCount    \* how many times the working directory was changed

vars == <<variant, argv, inUse, launchDir, cwd, PORT, sock, held, boundPort, pc, exc, exitCode,
          out, backlog, handling, responses, nextId, sigLog, bindAttempts,
          chdirCount>>

env == <<variant, argv, inUse, launchDir>>

Line(l, p) == [line |-> l, port |-> p]

Init ==
  /\ variant \in Variants
  /\ argv \in Argvs
  /\ inUse \in InUseSets
  /\ launchDir \in {CallerDir, ScriptDir(variant)}
  /\ cwd = launchDir
  /\ PORT = NoPort
  /\ sock = "none"
  /\ held = FALSE
  /\ boundPort = NoPort
  /\ pc = "parse"
  /\ exc = "none"
  /\ exitCode = NoExit
  /\ out = <<>>
  /\ backlog = <<>>
  /\ handling = {}
  /\ responses = <<>>
  /\ nextId = 1
  /\ sigLog = <<>>
  /\ bindAttempts = 0
  /\ chdirCount = 0

\* PORT = int(sys.argv[1]) if len(sys.argv) > 1 else 8000
ParseOk ==
  /\ pc = "parse"
  /\ ResolvePort(argv).ok
  /\ PORT' = ResolvePort(argv).val
  /\ pc' = "chdir"
  /\ UNCHANGED <<env, cwd, sock, held, boundPort, exc, exitCode, out, backlog,
                 handling, responses, nextId, sigLog, bindAttempts, chdirCount>>

\* int() raises ValueError, which nothing catches.
ParseFail ==
  /\ pc = "parse"
  /\ ~ResolvePort(argv).ok
  /\ exc' = "ValueError"
  /\ exitCode' = ExitStatus("ValueError")
  /\ pc' = "exited"
  /\ held' = FALSE
  /\ UNCHANGED <<env, cwd, PORT, sock, boundPort, out, backlog, handling,
                 responses, nextId, sigLog, bindAttempts, chdirCount>>

\* os.chdir(os.path.dirname(os.path.abspath(__file__)))
Chdir ==
  /\ pc = "chdir"
  /\ cwd' = ChdirTarget(variant, cwd)
  /\ chdirCount' = chdirCount + 1
  /\ pc' = "socket"
  /\ UNCHANGED <<env, PORT, sock, held, boundPort, exc, exitCode, out, backlog,
                 handling, responses, nextId, sigLog, bindAttempts>>

\* TCPServer.__init__: self.socket = socket.socket(...)
CreateSocket ==
  /\ pc = "socket"
  /\ sock' = "created"
  /\ held' = TRUE
  /\ pc' = "bind"
  /\ UNCHANGED <<env, cwd, PORT, boundPort, exc, exitCode, out, backlog,
                 handling, responses, nextId, sigLog, bindAttempts, chdirCount>>

\* TCPServer.__init__: server_bind() succeeds.
BindOk ==
  /\ pc = "bind"
  /\ BindPort(PORT, inUse).ok
  /\ \E bp \in BindPort(PORT, inUse).ports : boundPort' = bp
  /\ sock' = "bound"
  /\ bindAttempts' = bindAttempts + 1
  /\ pc' = "activate"
  /\ UNCHANGED <<env, cwd, PORT, held, exc, exitCode, out, backlog, handling,
                 responses, nextId, sigLog, chdirCount>>

\* TCPServer.__init__: server_bind() raises and control enters the
\* constructor's `except:`.
BindFail ==
  /\ pc = "bind"
  /\ ~BindPort(PORT, inUse).ok
  /\ bindAttempts' = bindAttempts + 1
  /\ exc' = BindPort(PORT, inUse).err
  /\ pc' = "ctor_except"
  /\ UNCHANGED <<env, cwd, PORT, sock, held, boundPort, exitCode, out, backlog,
                 handling, responses, nextId, sigLog, chdirCount>>

\* TCPServer.__init__: `except: self.server_close(); raise` -- the socket is
\* closed, the exception leaves the constructor and nothing catches it.
CtorExcept ==
  /\ pc = "ctor_except"
  /\ sock' = server_close(sock)
  /\ held' = FALSE
  /\ exitCode' = ExitStatus(exc)
  /\ pc' = "exited"
  /\ UNCHANGED <<env, cwd, PORT, boundPort, exc, out, backlog, handling,
                 responses, nextId, sigLog, bindAttempts, chdirCount>>

\* TCPServer.__init__: server_activate() calls listen().
Activate ==
  /\ pc = "activate"
  /\ sock' = "listening"
  /\ pc' = "enter"
  /\ UNCHANGED <<env, cwd, PORT, held, boundPort, exc, exitCode, out, backlog,
                 handling, responses, nextId, sigLog, bindAttempts, chdirCount>>

\* `with ... as httpd`: BaseServer.__enter__ returns and the block is entered.
WithEnter ==
  /\ pc = "enter"
  /\ pc' = "banner"
  /\ UNCHANGED <<env, cwd, PORT, sock, held, boundPort, exc, exitCode, out,
                 backlog, handling, responses, nextId, sigLog, bindAttempts,
                 chdirCount>>

\* One print call of the banner; after the last one the script stands
\* before the try statement.
PrintBanner ==
  /\ pc = "banner"
  /\ LET b == Banner(variant)
         i == Len(out) + 1
     IN /\ out' = Append(out, Line(b[i], IF b[i] \in {"serving-at", "blog-at"}
                                         THEN PORT ELSE NoPort))
        /\ pc' = IF i = Len(b) THEN "try" ELSE "banner"
  /\ UNCHANGED <<env, cwd, PORT, sock, held, boundPort, exc, exitCode, backlog,
                 handling, responses, nextId, sigLog, bindAttempts, chdirCount>>

\* try: httpd.serve_forever() -- the loop is entered.
EnterTry ==
  /\ pc = "try"
  /\ pc' = "serving"
  /\ UNCHANGED <<env, cwd, PORT, sock, held, boundPort, exc, exitCode, out,
                 backlog, handling, responses, nextId, sigLog, bindAttempts,
                 chdirCount>>

\* serve_forever has unwound (selector closed, finally block run) and the
\* KeyboardInterrupt reaches the except clause.
Unwound ==
  /\ pc = "unwind"
  /\ pc' = "except"
  /\ UNCHANGED <<env, cwd, PORT, sock, held, boundPort, exc, exitCode, out,
                 backlog, handling, responses, nextId, sigLog, bindAttempts,
                 chdirCount>>

\* A client connects; the kernel queues the connection as soon as the
\* socket listens, whether or not the script has reached serve_forever.
ClientConnect ==
  /\ sock = "listening"
  /\ held
  /\ nextId <= MaxRequests
  /\ \E q \in Requests :
       backlog' = Append(backlog,
                         [id |-> nextId, method |-> q.method, path |-> q.path])
  /\ nextId' = nextId + 1
  /\ UNCHANGED <<env, cwd, PORT, sock, held, boundPort, pc, exc, exitCode, out,
                 handling, responses, sigLog, bindAttempts, chdirCount>>

\* serve_forever: select reports the socket readable and get_request
\* accepts the oldest queued connection.
Accept ==
  /\ pc = "serving"
  /\ backlog # <<>>
  /\ CanAccept(handling)
  /\ handling' = handling \cup {Head(backlog)}
  /\ backlog' = Tail(backlog)
  /\ UNCHANGED <<env, cwd, PORT, sock, held, boundPort, pc, exc, exitCode, out,
                 responses, nextId, sigLog, bindAttempts, chdirCount>>

\* finish_request, first half: the handler reads the request, resolves the
\* path below the current working directory and writes the status line and
\* the headers.
SendHeaders ==
  /\ pc = "serving"
  /\ \E r \in handling :
       /\ \A i \in 1..Len(responses) : responses[i].id # r.id
       /\ LET resp == handle_one_request(cwd, r)
          IN responses' = Append(responses,
                [id |-> r.id, method |-> r.method, path |-> r.path,
                 status |-> resp.status, kind |-> resp.kind,
                 content |-> "", done |-> FALSE])
  /\ UNCHANGED <<env, cwd, PORT, sock, held, boundPort, pc, exc, exitCode, out,
                 backlog, handling, nextId, sigLog, bindAttempts, chdirCount>>

\* finish_request, second half: the handler writes the body (if the
\* response has one), returns, and the connection is shut down.
Finish ==
  /\ pc = "serving"
  /\ responses # <<>>
  /\ \E r \in handling :
       LET resp == handle_one_request(cwd, r)
           k == Len(responses)
       IN /\ responses[k].id = r.id
          /\ ~responses[k].done
          /\ responses' = [responses EXCEPT ![k].content = resp.content,
                                            ![k].done = TRUE]
          /\ handling' = handling \ {r}
          /\ pc' = AfterRequest(resp)
          /\ exc' = IF AfterRequest(resp) = "serving" THEN exc ELSE "OSError"
  /\ UNCHANGED <<env, cwd, PORT, sock, held, boundPort, exitCode, out, backlog,
                 nextId, sigLog, bindAttempts, chdirCount>>

\* SIGINT arrives and Python raises KeyboardInterrupt at the script's
\* current position.  Inside the constructor's except and inside __exit__
\* the interrupt falls before or after socket.close(); a process that ends
\* gives its descriptors back to the kernel.  A handler that is running is
\* abandoned (shutdown_request, then re-raise): what it has written stays
\* written, the rest of its response is never sent.
Interrupt ==
  /\ pc \in {"parse", "chdir", "socket", "bind", "activate", "ctor_except",
             "enter", "banner", "try", "serving", "unwind", "except",
             "with_exit"}
  /\ Len(sigLog) < MaxInterrupts
  /\ sigLog' = Append(sigLog, pc)
  /\ pc' = InterruptTarget(pc)
  /\ exc' = IF InterruptTarget(pc) = "unwind" THEN "none" ELSE "KeyboardInterrupt"
  /\ exitCode' = IF InterruptTarget(pc) = "exited"
                 THEN ExitStatus("KeyboardInterrupt") ELSE exitCode
  /\ sock' \in IF pc \in {"ctor_except", "with_exit"}
               THEN {sock, server_close(sock)}
               ELSE {sock}
  /\ held' = IF InterruptTarget(pc) = "exited" \/ sock' = "closed"
             THEN FALSE ELSE held
  /\ handling' = {}
  /\ UNCHANGED <<env, cwd, PORT, boundPort, out, backlog, responses, nextId,
                 bindAttempts, chdirCount>>

\* except KeyboardInterrupt: print("\n  Server stopped.")
ExceptHandler ==
  /\ pc = "except"
  /\ out' = Append(out, Line("stopped", NoPort))
  /\ pc' = "with_exit"
  /\ UNCHANGED <<env, cwd, PORT, sock, held, boundPort, exc, exitCode, backlog,
                 handling, responses, nextId, sigLog, bindAttempts, chdirCount>>

\* Leaving the `with` block: __exit__ calls server_close(); then the script
\* ends, normally or with the propagating exception.
WithExit ==
  /\ pc = "with_exit"
  /\ sock' = server_close(sock)
  /\ held' = FALSE
  /\ exitCode' = ExitStatus(exc)
  /\ pc' = "exited"
  /\ UNCHANGED <<env, cwd, PORT, boundPort, exc, out, backlog, handling,
                 responses, nextId, sigLog, bindAttempts, chdirCount>>

Next ==
  \/ ParseOk
  \/ ParseFail
  \/ Chdir
  \/ CreateSocket
  \/ BindOk
  \/ BindFail
  \/ CtorExcept
  \/ Activate
  \/ WithEnter
  \/ PrintBanner
  \/ EnterTry
  \/ Unwound
  \/ ClientConnect
  \/ Accept
  \/ SendHeaders
  \/ Finish
  \/ Interrupt
  \/ ExceptHandler
  \/ WithExit

Spec == Init /\ [][Next]_vars

\* ------------------------------------------------------------ properties
StoppedPrinted == \E i \in 1..Len(out) : out[i].line = "stopped"

\* The port each command line of Argvs asks for, written out by hand.
HasPortArg == Len(argv) > 1

AsksFor(n) ==
  \/ n = 8000 /\ ~HasPortArg
  \/ n = 3000 /\ HasPortArg /\ argv[2] \in { <<51, 48, 48, 48>>, <<9, 1635, 1632, 48, 48, 10>> }
  \/ n = 8001 /\ HasPortArg /\ argv[2] \in { <<56, 48, 48, 49>>,
                                            <<32, 43, 56, 95, 48, 48, 49>> }

NonIntegerArg ==
  HasPortArg /\ argv[2] \in { <<97, 98, 99>>, <<56, 48, 95>> }

\* C1: when one interrupt arrives while the script is inside serve_forever,
\* the process ends with status 0, its socket closed, and "Server stopped."
\* is the last line it printed.
C1_InterruptStopsServer ==
  (pc = "exited" /\ sigLog = <<"serving">>) =>
     /\ exitCode = ExitOk
     /\ sock = "closed"
     /\ out # <<>>
     /\ out[Len(out)].line = "stopped"

C1_Witness ==
  /\ pc = "exited"
  /\ sigLog = <<"serving">>
  /\ exitCode = ExitOk
  /\ StoppedPrinted

C3_BadArgumentNeverListens ==
  NonIntegerArg =>
     /\ sock = "none"
     /\ ~held
     /\ bindAttempts = 0
     /\ boundPort = NoPort
     /\ pc \in {"parse", "exited"}
     /\ (pc = "exited" => exitCode # ExitOk)

C3_Witness ==
  /\ NonIntegerArg
  /\ pc = "exited"
  /\ exc = "ValueError"
  /\ exitCode = ExitError

\* C4: once the server object exists the socket is on exactly the port the
\* command line asks for (8000 without an argument), and when that port is a
\* free valid port the run only ends through an interrupt.
C4_ListensOnResolvedPort ==
  \A n \in {8000, 3000, 8001} :
     AsksFor(n) =>
        /\ (pc \in {"enter", "banner", "try", "serving", "unwind", "except"} =>
              sock = "listening" /\ boundPort = n)
        /\ (sock \in {"bound", "listening"} => boundPort = n /\ PORT = n)
        /\ (pc = "exited" /\ sigLog = <<>> => n \in inUse)

C4_Witness ==
  /\ pc = "serving"
  /\ sock = "listening"
  /\ \/ ~HasPortArg /\ boundPort = 8000
     \/ AsksFor(3000) /\ boundPort = 3000

\* C5: when the port asked for is taken, bind is attempted at most once, no
\* port is ever bound, the script never gets past the constructor, and the
\* process ends with a non-zero status (an OSError unless interrupted first).
C5_PortInUseIsFatal ==
  \A n \in {8000, 3000, 8001} :
     (AsksFor(n) /\ n \in inUse) =>
        /\ bindAttempts <= 1
        /\ boundPort = NoPort
        /\ sock \in {"none", "created", "closed"}
        /\ pc \in {"parse", "chdir", "socket", "bind", "ctor_except", "exited"}
        /\ (pc = "exited" => exitCode # ExitOk)
        /\ (pc = "exited" /\ sigLog = <<>> =>
              exc = "OSError" /\ bindAttempts = 1 /\ exitCode = ExitError)

C5_Witness ==
  /\ pc = "exited"
  /\ PORT \in inUse
  /\ exc = "OSError"
  /\ bindAttempts = 1
  /\ sock = "closed"

TargetNode(r) == Node(ScriptDir(variant), NormPath(r.path.segs, <<>>))

\* A step that completes a response.
Completes(rs, rs2) ==
  /\ rs2 # rs
  /\ rs2 # <<>>
  /\ rs2[Len(rs2)].done

\* C7 as stated: every request that is answered gets, for a path that is an
\* existing file, status 200 with the file's content, and for a path that
\* does not exist status 404; and answering changes none of PORT, the
\* working directory and the socket.
C7_EveryRequestResolved ==
  [][ Completes(responses, responses') =>
        LET r == responses'[Len(responses')]
            n == TargetNode(r)
        IN /\ (r.method # "BAD" /\ n.kind \in {"file", "noperm"} /\ ~r.path.slash) =>
                 r.status = 200 /\ r.content = n.content
           /\ (r.method # "BAD" /\ n.kind = "absent") => r.status = 404
           /\ UNCHANGED <<PORT, cwd, sock, held, boundPort, inUse>>
    ]_vars

\* C7 amended: a GET request handled to completion gets status 200 and the
\* file's content for a readable file, and status 404 for a path that does
\* not exist and for a file that cannot be opened; HEAD gets the same
\* status without a body, another method 501, an unparsable request 400; a
\* response is first sent without its body; and no step that sends (part of)
\* a response changes PORT, the working directory or the socket.
C7_GetRequestsResolvedUnderBase ==
  [][ /\ responses' # responses =>
            UNCHANGED <<PORT, cwd, sock, held, boundPort, inUse>>
      /\ Len(responses') > Len(responses) =>
            /\ responses'[Len(responses')].content = ""
            /\ ~responses'[Len(responses')].done
      /\ Completes(responses, responses') =>
            LET r == responses'[Len(responses')]
                n == TargetNode(r)
                plain == ~r.path.slash
            IN /\ (r.method = "GET" /\ n.kind = "file" /\ plain) =>
                     r.status = 200 /\ r.kind = "file" /\ r.content = n.content
               /\ (r.method = "GET" /\ n.kind \in {"absent", "noperm"}) =>
                     r.status = 404 /\ r.kind = "error"
               /\ (r.method = "HEAD" /\ n.kind = "file" /\ plain) =>
                     r.status = 200 /\ r.content = ""
               /\ (r.method = "HEAD" /\ n.kind = "absent") => r.status = 404
               /\ (r.method = "POST") => r.status = 501
               /\ (r.method = "BAD") => r.status = 400
    ]_vars

C7_Witness ==
  /\ launchDir = CallerDir
  /\ Len(responses) = 2
  /\ responses[1].method = "GET"
  /\ responses[1].path.segs = <<"index.html">>
  /\ ~responses[1].path.slash
  /\ responses[1].done
  /\ responses[1].status = 200
  /\ responses[1].content = (IF variant = "docs" THEN "docs-index" ELSE "blog-index")
  /\ responses[2].method = "GET"
  /\ responses[2].path.segs = <<"missing.xyz">>
  /\ responses[2].done
  /\ responses[2].status = 404

\* C8 as stated: wherever an interrupt arrives, the process prints the
\* shutdown message and ends with status 0.
C8_InterruptHandledEverywhere ==
  (pc = "exited" /\ sigLog # <<>>) => exitCode = ExitOk /\ StoppedPrinted

\* C8 amended: an interrupted run ends with status 0 exactly when all its
\* interrupts arrived inside the try block (in serve_forever or while it
\* unwinds), and then the shutdown message was printed; a first interrupt
\* anywhere else ends the process with the status of an unhandled
\* KeyboardInterrupt and no shutdown message.
C8_InterruptHandledOnlyWhileServing ==
  (pc = "exited" /\ sigLog # <<>>) =>
     /\ (exitCode = ExitOk <=>
           \A i \in 1..Len(sigLog) : sigLog[i] \in {"serving", "unwind"})
     /\ (exitCode = ExitOk => StoppedPrinted)
     /\ (sigLog[1] # "serving" => exitCode = ExitSigint /\ ~StoppedPrinted)

C8_Witness ==
  /\ pc = "exited"
  /\ sigLog = <<"banner">>
  /\ exitCode = ExitSigint
  /\ ~StoppedPrinted
  /\ Len(out) > 0

\* C9: whenever the socket is bound or listening the working directory is
\* the script's directory; the directory is changed exactly once, after PORT
\* is assigned and before bind is called, and never again.
C9_WorkingDirectoryFixed ==
  /\ chdirCount <= 1
  /\ (sock \in {"created", "bound", "listening"} =>
        cwd = ScriptDir(variant) /\ chdirCount = 1)
  /\ (chdirCount = 1 => PORT # NoPort /\ cwd = ScriptDir(variant))
  /\ (chdirCount = 0 => bindAttempts = 0 /\ cwd = launchDir)
  /\ (bindAttempts > 0 => chdirCount = 1)

C9_Witness ==
  /\ launchDir = CallerDir
  /\ sock = "listening"
  /\ cwd = ScriptDir(variant)
  /\ responses # <<>>

\* C10: at most one request is being handled at any moment, a connection
\* stays queued while another request is handled, and responses go out in
\* the order the connections were made.
C10_OneRequestAtATime ==
  /\ Cardinality(handling) <= 1
  /\ \A i, j \in 1..Len(responses) :
        i < j => responses[i].id < responses[j].id
  /\ \A h \in handling : \A k \in 1..Len(backlog) : h.id < backlog[k].id

C10_Witness ==
  /\ pc = "serving"
  /\ handling # {}
  /\ backlog # <<>>

====
